---- MODULE Spec2Model ----
(***************************************************************************)
(* Match rooms of the Paddle (PingPongGame) and Reaction (KeyClash)        *)
(* engines: one room of the registry, the connections that talk to it,     *)
(* its tick timer and its bracket.                                         *)
(*                                                                         *)
(* The room is a record `room`; every handler of the source is an operator *)
(* from room records to room records, so that handlers compose the way the *)
(* code composes them (setReady calls startGame, the interval callback     *)
(* calls update and matchmake).  Player objects live in room.obj and are   *)
(* referred to by index, because the source shares one Player object       *)
(* between state.players and state.matches and mutates its side in place.  *)
(*                                                                         *)
(* What the model leaves out of the source:                                *)
(*  - in the room, the ball and the paddles: a tick of update() that ends  *)
(*    no round awards the point the flight of the ball decides (left,      *)
(*    right, none); the flight itself is followed on its own in BallSpec;  *)
(*  - the prompts of the Reaction game: a keypress carries whether the key *)
(*    equals the prompt it is compared with;                               *)
(*  - the display strings and the database record of a finished match (the *)
(*    emission "saved" stands for the call that writes it);                *)
(*  - the lobby snapshots (the emission "lobby_update"); of the lobby      *)
(*    namespaces the pool of /quickmatch is followed;                      *)
(*  - a connection joins one room once, and the mode and type a Reaction   *)
(*    client sends with join_game_room are those of the room.              *)
(***************************************************************************)
EXTENDS Integers, Sequences, FiniteSets, TLC

VARIABLES engine, room, sockets, registered, after, lobby, ball

vars == <<engine, room, sockets, registered, after, lobby, ball>>

(***************************************************************************)
(* Bounds of the model.                                                    *)
(***************************************************************************)
\* connections beyond the seat quota that may talk to a remote room
MaxSpare == 1
\* connections that may talk to a remote room
MaxConns == 4
\* events a room handles once it holds more players than seats or has left the registry
MaxAfter == 1
\* the same for a 1v1 room of the Reaction engine, whose timers are told apart
\* only after a seating, a start and two departures
MaxAfterDuel == 3
\* player objects beyond the seat quota that may be created, and names events
\* that may come from a connection that has seated a player before
MaxExtra == 1
\* clock units a pause may last
MaxPause == 1
\* clock units by which the clock may pass the end timestamp of a round
MaxLate == 0
\* the sum of the absolute values of all scores of the room, current and recorded
MaxScoreSum == 1
\* how far below zero an unreferenced timer may drive the Reaction countdown
MaxUnder == 1
\* live timers that are no longer referenced by state.interval
MaxOrphans == 1
\* rounds a 1v1 room may play
MaxRounds == 2
\* entries the lobby pool may hold
MaxLobby == 2
\* durable player ids the lobby sees
MaxIds == 2

(***************************************************************************)
(* Program constants.  The clock unit is the 120000 ms round budget.  The  *)
(* win threshold (3 in the source) and the Reaction countdown (20 in the   *)
(* source) are scaled down.                                                *)
(***************************************************************************)
gameDuration == 1
maxScore == 1
Countdown == 2

\* Timestamps are kept relative to the present: performance.now() reads 0 and
\* the passing of time moves the stored timestamps back.
now == 0

Capacity(type) == IF type = "1v1" THEN 2 ELSE 4

ConnIds == <<"c1", "c2", "c3", "c4", "c5", "c6">>
\* a local room is driven by one connection, a remote room by one per seat and
\* the spare ones
NumConns(type, mode) ==
    IF mode = "local" THEN 1
    ELSE IF Capacity(type) + MaxSpare < MaxConns THEN Capacity(type) + MaxSpare ELSE MaxConns
Conns == {ConnIds[i] : i \in 1..MaxConns}
ConnIndex(c) == CHOOSE i \in DOMAIN ConnIds : ConnIds[i] = c

\* display names are sequences of characters
\* the characters of the model that /^[A-Za-z0-9 _-]+$/ accepts
NameChars == {"A", "a", "b", "7", "_", "-", " "}
NamePool == << <<"A">>, <<"a">>, <<"b">>, <<"7">>, <<"_">>, <<"-">>, <<" ">>,
               <<"A", "b">>, <<"a", " ", "b">>, <<"7", "_">>, <<"b", "-">>, <<"a", "a">> >>
TooLong == [i \in 1..21 |-> "a"]
BadNames == { <<>>, <<"a", "!">>, TooLong }

Range(f) == {f[i] : i \in DOMAIN f}
Max(a, b) == IF a > b THEN a ELSE b

\* array[i] of JavaScript, 0 standing for undefined / null
NoPlayer == 0
At(seq, i) == IF i \in DOMAIN seq THEN seq[i] ELSE NoPlayer

(***************************************************************************)
(* PingPongGame.ts                                                         *)
(***************************************************************************)
Player(socketId, name, side) == [socketId |-> socketId, name |-> name, side |-> side]

Match(p1, p2) ==
    [player1 |-> p1, player2 |-> p2, p1score |-> 0, p2score |-> 0,
     winner |-> NoPlayer, duration |-> 0]

\* the random indices j of the Fisher-Yates loop, one per i = n-1 .. 1
ShuffleChoices(n) == {js \in [1..(n - 1) -> 0..(n - 1)] : \A i \in 1..(n - 1) : js[i] <= i}

Swap(arr, a, b) ==
    [k \in DOMAIN arr |-> IF k = a THEN arr[b] ELSE IF k = b THEN arr[a] ELSE arr[k]]

RECURSIVE ShuffleFrom(_, _, _)
ShuffleFrom(arr, i, js) ==
    IF i < 1 THEN arr
    ELSE ShuffleFrom(Swap(arr, i + 1, js[i] + 1), i - 1, js)

shufflePlayers(arr, js) == ShuffleFrom(arr, Len(arr) - 1, js)

\* an uncaught TypeError ends the process
Crash(s) == [s EXCEPT !.crashed = TRUE]

\* what the handler that is running sends (acknowledgements and room broadcasts)
Emit(s, e) == [s EXCEPT !.out = @ \cup {e}]

resetPlayerSides(s) ==
    [s EXCEPT !.obj = [i \in DOMAIN s.obj |->
        IF i \in Range(s.players) THEN [s.obj[i] EXCEPT !.side = "none"] ELSE s.obj[i]]]

\* matches[k].player1.side = "left"; matches[k].player2.side = "right"
SeatMatch(s, k) ==
    LET a == s.matches[k].player1
        b == s.matches[k].player2
    IN  [s EXCEPT !.obj = [i \in DOMAIN s.obj |->
            IF i = b THEN [s.obj[i] EXCEPT !.side = "right"]
            ELSE IF i = a THEN [s.obj[i] EXCEPT !.side = "left"]
            ELSE s.obj[i]]]

\* pairRound with the semifinals paired (1st, 3rd) and (2nd, 4th)
pairRoundCrossed(s, js) ==
    IF s.round = 1 /\ Len(s.players) >= 4 THEN
        LET p == shufflePlayers(s.players, js)
            s1 == [s EXCEPT !.players = p,
                            !.matches = s.matches \o <<Match(p[1], p[3]), Match(p[2], p[4])>>]
        IN  SeatMatch(resetPlayerSides(s1), 1)
    ELSE IF s.round = 2 /\ Len(s.matches) >= 2 THEN SeatMatch(resetPlayerSides(s), 2)
    ELSE s

pairRound(s, js) ==
    IF s.round = 1 THEN
        IF Len(s.players) < 4 THEN Crash(s)
        ELSE LET p == shufflePlayers(s.players, js)
                 s1 == [s EXCEPT !.players = p,
                                 !.matches = s.matches \o <<Match(p[1], p[2]), Match(p[3], p[4])>>]
             IN  SeatMatch(resetPlayerSides(s1), 1)
    ELSE IF s.round = 2 THEN
        IF Len(s.matches) < 2 THEN Crash(s)
        ELSE SeatMatch(resetPlayerSides(s), 2)
    ELSE IF s.round = 3 THEN
        IF Len(s.matches) < 1 THEN Crash(s)
        ELSE IF s.matches[1].winner = NoPlayer THEN s
        ELSE IF Len(s.matches) < 2 THEN Crash(s)
        ELSE IF s.matches[2].winner = NoPlayer THEN s
        ELSE LET s1 == [s EXCEPT !.matches =
                           Append(s.matches, Match(s.matches[1].winner, s.matches[2].winner))]
             IN  SeatMatch(resetPlayerSides(s1), 3)
    ELSE s

matchmake(s, js) == pairRound(s, js)

setPlayer(s, side, name, socketId) ==
    [s EXCEPT !.obj = Append(s.obj, Player(socketId, name, side)),
              !.players = Append(s.players, Len(s.obj) + 1)]

resetGame(s, t) ==
    [s EXCEPT !.leftScore = 0, !.rightScore = 0, !.gameEndTime = t + gameDuration]

\* the ball step of update(): pt is the point the ball's flight awards on this tick
BallStep(s, pt) ==
    IF pt = "left" THEN [s EXCEPT !.leftScore = s.leftScore + 1]
    ELSE IF pt = "right" THEN [s EXCEPT !.rightScore = s.rightScore + 1]
    ELSE s

\* update with a tie of the time-out branch given to player1
updateTieToSeatA(s, t, pt) ==
    IF s.status # "in-progress" THEN s
    ELSE IF t >= s.gameEndTime \/ s.leftScore >= maxScore \/ s.rightScore >= maxScore THEN
        IF s.round \notin DOMAIN s.matches THEN Crash(s)
        ELSE LET m == s.matches[s.round]
             IN  [s EXCEPT !.status = "finished",
                           !.matches[s.round] =
                               [m EXCEPT !.p1score = s.leftScore, !.p2score = s.rightScore,
                                         !.winner = IF s.rightScore > s.leftScore
                                                    THEN m.player2 ELSE m.player1]]
    ELSE BallStep(s, pt)

\* update without the branch that ends the round when a score has reached maxScore
updatePlaysOn(s, t, pt) ==
    IF s.status # "in-progress" THEN s
    ELSE LET i == s.round
         IN
         IF t >= s.gameEndTime THEN
            IF i \notin DOMAIN s.matches THEN Crash([s EXCEPT !.status = "finished"])
            ELSE LET m == s.matches[i]
                     w == IF s.leftScore > s.rightScore THEN m.player1
                          ELSE IF s.rightScore > s.leftScore THEN m.player2
                          ELSE IF s.type = "1v1" THEN m.winner
                          ELSE m.player2
                 IN  [s EXCEPT !.status = "finished",
                               !.matches[i] = [m EXCEPT !.p1score = s.leftScore,
                                                        !.p2score = s.rightScore,
                                                        !.duration = gameDuration,
                                                        !.winner = w]]
         ELSE BallStep(s, pt)

update(s, t, pt) ==
    IF s.status # "in-progress" THEN s
    ELSE LET i == s.round
             totalSecondsLeft == Max(0, s.gameEndTime - t)
         IN
         IF t >= s.gameEndTime THEN
            IF i \notin DOMAIN s.matches THEN Crash([s EXCEPT !.status = "finished"])
            ELSE LET m == s.matches[i]
                     w == IF s.leftScore > s.rightScore THEN m.player1
                          ELSE IF s.rightScore > s.leftScore THEN m.player2
                          ELSE IF s.type = "1v1" THEN m.winner
                          ELSE m.player2
                 IN  [s EXCEPT !.status = "finished",
                               !.matches[i] = [m EXCEPT !.p1score = s.leftScore,
                                                        !.p2score = s.rightScore,
                                                        !.duration = gameDuration,
                                                        !.winner = w]]
         ELSE IF s.leftScore >= maxScore \/ s.rightScore >= maxScore THEN
            IF i \notin DOMAIN s.matches THEN Crash(s)
            ELSE LET m == s.matches[i]
                     w == IF s.leftScore > s.rightScore THEN m.player1 ELSE m.player2
                 IN  [s EXCEPT !.status = "finished",
                               !.matches[i] = [m EXCEPT !.p1score = s.leftScore,
                                                        !.p2score = s.rightScore,
                                                        !.duration = gameDuration - totalSecondsLeft,
                                                        !.winner = w]]
         ELSE BallStep(s, pt)

(***************************************************************************)
(* KeyClashGame.ts: validatePlayerNames.  names is <<player1, .., player4>> *)
(***************************************************************************)
validNameRegex(n) == Len(n) > 0 /\ \A i \in DOMAIN n : n[i] \in NameChars

BadName(n) == Len(n) = 0 \/ Len(n) > 20 \/ ~validNameRegex(n)

validatePlayerNames(names, type, mode) ==
    IF BadName(names[1]) THEN 1
    ELSE IF mode # "local" THEN 0
    ELSE IF BadName(names[2]) \/ names[2] = names[1] THEN 2
    ELSE IF type # "tournament" THEN 0
    ELSE IF BadName(names[3]) \/ names[3] = names[2] THEN 3
    ELSE IF BadName(names[4]) \/ names[4] = names[3] THEN 4
    ELSE 0

(***************************************************************************)
(* gameRoutes.ts: setupPongNamespace.  A socket is a record                *)
(*   phase      "fresh" (connected), "joined" (socket.data.roomId set and  *)
(*              the handlers of the join closure registered) or "closed"   *)
(*   playerSide the variable playerSide of the join_game_room closure      *)
(*   regs       the player objects captured by the setReady / keypress     *)
(*              handlers that successful names events have registered      *)
(***************************************************************************)
FindSide(s, side) ==
    LET idx == {k \in DOMAIN s.players : s.obj[s.players[k]].side = side}
    IN  IF idx = {} THEN NoPlayer
        ELSE s.players[CHOOSE k \in idx : \A l \in idx : k <= l]

FindSocket(s, c) ==
    LET idx == {k \in DOMAIN s.players : s.obj[s.players[k]].socketId = c}
    IN  IF idx = {} THEN 0 ELSE CHOOSE k \in idx : \A l \in idx : k <= l

\* startGame without the test of state.loop
startGameUnguarded(s, t) ==
    LET s1 == Emit([s EXCEPT !.status = "in-progress"], "lobby_update")
        p1 == FindSide(s, "left")
        p2 == FindSide(s, "right")
    IN  IF p1 = NoPlayer \/ p2 = NoPlayer THEN s1
        ELSE [resetGame(s1, t) EXCEPT !.matches = Append(s.matches, Match(p1, p2)),
                                      !.round = s.round + 1,
                                      !.player1ready = FALSE,
                                      !.player2ready = FALSE,
                                      !.loop = "start"]

\* startGame playing every round of the room on its first match
startGameSameMatch(s, t) ==
    LET s1 == Emit([s EXCEPT !.status = "in-progress"], "lobby_update")
        p1 == FindSide(s, "left")
        p2 == FindSide(s, "right")
    IN  IF s.loop # "none" THEN s1
        ELSE IF p1 = NoPlayer \/ p2 = NoPlayer THEN s1
        ELSE [resetGame(s1, t) EXCEPT !.matches = IF s.round = 0 THEN <<Match(p1, p2)>> ELSE @,
                                      !.round = 1,
                                      !.player1ready = FALSE,
                                      !.player2ready = FALSE,
                                      !.loop = "start"]

\* join_game_room: startGame
startGame(s, t) ==
    LET s1 == Emit([s EXCEPT !.status = "in-progress"], "lobby_update")
        p1 == FindSide(s, "left")
        p2 == FindSide(s, "right")
    IN  IF s.loop # "none" THEN s1
        ELSE IF p1 = NoPlayer \/ p2 = NoPlayer THEN s1
        ELSE [resetGame(s1, t) EXCEPT !.matches = Append(s.matches, Match(p1, p2)),
                                      !.round = s.round + 1,
                                      !.player1ready = FALSE,
                                      !.player2ready = FALSE,
                                      !.loop = "start"]

\* join_tournament_room: startGame
tournamentStartGame(s, t) ==
    IF s.loop # "none" THEN s
    ELSE [resetGame(s, t) EXCEPT !.status = "in-progress",
                                 !.player1ready = FALSE,
                                 !.player2ready = FALSE,
                                 !.loop = "start"]

\* names with the player seated before the test of the name that is taken
namesSeatFirst(s, sk, c, nm, t) ==
    LET side == IF Len(s.players) = 1 /\ s.obj[s.players[1]].side = "left"
                THEN "right" ELSE sk.playerSide
        s1 == setPlayer(s, side, nm[1], c)
        s2 == IF s.mode = "local" THEN setPlayer(s1, "right", nm[2], "p2") ELSE s1
        s3 == IF Len(s2.players) = 2
              THEN [resetGame(s2, t) EXCEPT !.status = "starting"] ELSE s2
    IN  IF validatePlayerNames(nm, s.type, s.mode) > 0 THEN [s |-> Emit(s, "error"), sk |-> sk]
        ELSE IF Len(s.players) = 1 /\ s.obj[s.players[1]].name = nm[1]
            THEN [s |-> Emit(s1, "error"), sk |-> sk]
        ELSE [s |-> Emit(s3, "lobby_update"),
              sk |-> [sk EXCEPT !.playerSide = IF s.mode = "local" THEN "none" ELSE side]]

\* join_game_room: socket.on('names')
names(s, sk, c, nm, t) ==
    IF validatePlayerNames(nm, s.type, s.mode) > 0 THEN [s |-> Emit(s, "error"), sk |-> sk]
    ELSE IF Len(s.players) = 1 /\ s.obj[s.players[1]].name = nm[1]
        THEN [s |-> Emit(s, "error"), sk |-> sk]
    ELSE LET side == IF Len(s.players) = 1 /\ s.obj[s.players[1]].side = "left"
                     THEN "right" ELSE sk.playerSide
             s1 == setPlayer(s, side, nm[1], c)
             s2 == IF s.mode = "local" THEN setPlayer(s1, "right", nm[2], "p2") ELSE s1
             s3 == IF Len(s2.players) = 2
                   THEN [resetGame(s2, t) EXCEPT !.status = "starting"] ELSE s2
         IN  [s |-> Emit(s3, "lobby_update"),
              sk |-> [sk EXCEPT !.playerSide = IF s.mode = "local" THEN "none" ELSE side]]

\* join_game_room: socket.on("setReady")
setReady(s, sk, t) ==
    IF s.status = "in-progress" \/ s.status = "paused" \/ Len(s.players) < 2 THEN s
    ELSE IF s.mode = "local" THEN startGame(s, t)
    ELSE IF s.status # "starting" THEN s
    ELSE IF sk.playerSide = "none" THEN s
    ELSE LET s1 == IF sk.playerSide = "left" THEN [s EXCEPT !.player1ready = TRUE]
                   ELSE [s EXCEPT !.player2ready = TRUE]
         IN  IF Len(s1.players) = 2 /\ s1.player1ready /\ s1.player2ready
             THEN startGame(s1, t) ELSE s1

\* join_game_room: socket.on("restart")
restart(s, t) ==
    IF s.mode = "local" THEN startGame(s, t)
    ELSE [resetGame(s, t) EXCEPT !.status = "starting"]

\* join_tournament_room: socket.on('names'); the setReady handler it registers
\* captures the first player of the room that carries this socket's id
tournamentNames(s, sk, c, nm, js) ==
    LET n == Len(s.players)
        taken == \/ n >= 1 /\ s.obj[s.players[1]].name = nm[1]
                 \/ n >= 2 /\ s.obj[s.players[2]].name = nm[1]
                 \/ n = 3 /\ s.obj[s.players[3]].name = nm[1]
    IN  IF validatePlayerNames(nm, s.type, s.mode) > 0 THEN [s |-> Emit(s, "error"), sk |-> sk]
        ELSE IF taken THEN [s |-> Emit(s, "error"), sk |-> sk]
        ELSE LET s1 == setPlayer(s, "none", nm[1], c)
                 s2 == IF s.mode = "local"
                       THEN setPlayer(setPlayer(setPlayer(s1, "none", nm[2], "p2"),
                                                "none", nm[3], "p3"), "none", nm[4], "p4")
                       ELSE s1
                 player == s2.players[FindSocket(s2, c)]
                 s3 == IF Len(s2.players) = 4
                       THEN matchmake([s2 EXCEPT !.status = "starting", !.round = s2.round + 1,
                                                 !.out = @ \cup {"lobby_update"}], js)
                       ELSE Emit(s2, "lobby_update")
             IN  [s |-> s3, sk |-> [sk EXCEPT !.regs = Append(sk.regs, player)]]

\* join_tournament_room: socket.on("setReady"), for the captured player
tournamentSetReady(s, player, t) ==
    IF s.status # "starting" \/ Len(s.players) < 4 THEN s
    ELSE IF s.mode = "local" THEN tournamentStartGame(s, t)
    ELSE IF s.obj[player].side = "none" THEN s
    ELSE LET s1 == IF s.obj[player].side = "left" THEN [s EXCEPT !.player1ready = TRUE]
                   ELSE [s EXCEPT !.player2ready = TRUE]
         IN  IF Len(s1.players) = 4 /\ s1.player1ready /\ s1.player2ready
             THEN tournamentStartGame(s1, t) ELSE s1

\* togglePause with a resume that leaves the end of the round where it was
togglePauseKeepsDeadline(s, t) ==
    IF s.loop # "none" THEN
        Emit([s EXCEPT !.whenPaused = t, !.loop = "none", !.status = "paused"], "lobby_update")
    ELSE IF s.status = "paused" THEN
        [Emit(s, "lobby_update") EXCEPT !.status = "in-progress", !.loop = "resume"]
    ELSE s

togglePause(s, t) ==
    IF s.loop # "none" THEN
        Emit([s EXCEPT !.whenPaused = t, !.loop = "none", !.status = "paused"], "lobby_update")
    ELSE IF s.status = "paused" THEN
        [Emit(s, "lobby_update") EXCEPT !.status = "in-progress",
                  !.gameEndTime = s.gameEndTime + (t - s.whenPaused),
                  !.loop = "resume"]
    ELSE s

\* socket.on("pause") without the test of the mode
pauseAnyMode(s, t) == togglePause(s, t)

\* socket.on("pause")
pause(s, t) == IF s.mode = "local" THEN togglePause(s, t) ELSE s

\* what the interval callbacks do after a finished tournament round
nextRound(s, js) ==
    LET s1 == matchmake([s EXCEPT !.round = s.round + 1], js)
    IN  IF s1.crashed THEN s1
        ELSE Emit(IF s1.round <= 3 THEN [s1 EXCEPT !.status = "starting"] ELSE s1,
                  "lobby_update")

\* the setInterval callback of join_game_room: startGame
loopCallback(s, t, pt) ==
    LET s1 == update(s, t, pt)
    IN  IF s1.crashed \/ s1.status # "finished" THEN s1
        ELSE Emit(Emit([s1 EXCEPT !.loop = "none"], "saved"), "lobby_update")

\* the setInterval callback of join_tournament_room: startGame
tournamentLoopCallback(s, t, pt, js) ==
    LET s1 == update(s, t, pt)
    IN  IF s1.crashed \/ s1.status # "finished" THEN s1
        ELSE nextRound(Emit([s1 EXCEPT !.loop = "none"], "saved"), js)

\* the setInterval callback of togglePause
resumeLoopCallback(s, t, pt, js) ==
    LET s1 == update(s, t, pt)
    IN  IF s1.crashed \/ s1.status # "finished" THEN s1
        ELSE IF s1.type = "tournament" THEN nextRound([s1 EXCEPT !.loop = "none"], js)
        ELSE Emit([s1 EXCEPT !.loop = "none"], "lobby_update")

RemovePlayerOf(s, c) ==
    LET k == FindSocket(s, c)
    IN  IF k = 0 THEN s
        ELSE [s EXCEPT !.players = SubSeq(s.players, 1, k - 1) \o
                                   SubSeq(s.players, k + 1, Len(s.players))]

\* socket.on('disconnect'), once the room was found in the registry;
\* the result says whether the room stays in the registry
disconnect(s, c) ==
    LET s1 == RemovePlayerOf(s, c)
    IN  IF s1.type = "tournament" THEN
            LET gone == s1.status # "waiting" \/ Len(s1.players) = 0 \/ s1.mode = "local"
                s2 == IF gone THEN Emit(s1, "disconnection") ELSE s1
                s3 == IF s2.status = "waiting" THEN Emit(s2, "waiting") ELSE s2
            IN  [s |-> Emit(s3, "lobby_update"), keep |-> ~gone]
        ELSE
            LET s2 == IF Len(s1.players) < 2
                      THEN Emit([s1 EXCEPT !.loop = "none", !.status = "waiting"], "waiting")
                      ELSE s1
            IN  [s |-> Emit(s2, "lobby_update"),
                 keep |-> ~(Len(s2.players) = 0 \/ s2.mode = "local")]

(***************************************************************************)
(* KeyClashGame.ts: setupKeyClash.  state.interval is room.loop; a timer   *)
(* whose handle was overwritten without clearInterval keeps firing and is  *)
(* counted in room.orphans.                                                *)
(***************************************************************************)
kcMatchmake(s, js) ==
    LET s1 == pairRound(s, js)
    IN  IF s1.crashed THEN s1
        ELSE IF s1.round <= 3 THEN [s1 EXCEPT !.status = "starting", !.timeLeft = Countdown]
        ELSE s1

kcStartGame(s) ==
    IF s.status = "in-progress" THEN s
    ELSE LET s1 == IF s.type = "1v1"
                   THEN [s EXCEPT !.round = s.round + 1,
                                  !.matches = Append(s.matches,
                                      Match(At(s.players, 1), At(s.players, 2)))]
                   ELSE s
         IN  [Emit(s1, "lobby_update") EXCEPT
                        !.status = "in-progress",
                        !.score1 = 0, !.score2 = 0, !.timeLeft = Countdown,
                        !.orphans = IF s.loop # "none" THEN s.orphans + 1 ELSE s.orphans,
                        !.loop = "start"]

\* join_game_room: socket.on("names"); the keypress and setReady handlers it
\* registers capture the player object it has created
kcNames(s, sk, c, nm, js) ==
    LET n == Len(s.players)
        taken == \/ n >= 1 /\ s.obj[s.players[1]].name = nm[1]
                 \/ n >= 2 /\ s.obj[s.players[2]].name = nm[1]
                 \/ n >= 3 /\ s.obj[s.players[3]].name = nm[1]
        side == IF n = 0 \/ (n = 1 /\ s.obj[s.players[1]].side = "right") THEN "left"
                ELSE IF n = 1 /\ s.obj[s.players[1]].side = "left" THEN "right"
                ELSE "none"
    IN  IF validatePlayerNames(nm, s.type, s.mode) > 0 THEN [s |-> Emit(s, "error"), sk |-> sk]
        ELSE IF taken THEN [s |-> Emit(s, "error"), sk |-> sk]
        ELSE LET s1 == setPlayer(s, side, nm[1], c)
                 player == Len(s1.obj)
                 s2 == IF s.mode = "local" THEN setPlayer(s1, "right", nm[2], "p2") ELSE s1
                 s3 == IF s.mode = "local" /\ s.type = "tournament"
                       THEN setPlayer(setPlayer(s2, "none", nm[3], "p3"), "none", nm[4], "p4")
                       ELSE s2
                 s4 == IF Len(s3.players) < Capacity(s3.type)
                       THEN Emit([s3 EXCEPT !.status = "waiting"], "waiting")
                       ELSE IF s3.type = "tournament"
                       THEN kcMatchmake([s3 EXCEPT !.status = "starting",
                                                   !.round = s3.round + 1], js)
                       ELSE [s3 EXCEPT !.status = "starting", !.score1 = 0, !.score2 = 0,
                                       !.timeLeft = Countdown]
             IN  [s |-> IF s4.crashed THEN s4 ELSE Emit(s4, "lobby_update"),
                  sk |-> [sk EXCEPT !.regs = Append(sk.regs, player)]]

\* socket.on("setReady"), for the captured player
kcSetReady(s, player) ==
    IF (s.status # "starting" /\ s.status # "finished")
       \/ (s.type = "tournament" /\ s.status = "finished") THEN s
    ELSE IF s.mode = "local" THEN kcStartGame(s)
    ELSE LET s1 == IF s.status = "finished"
                   THEN Emit([s EXCEPT !.status = "starting"], "lobby_update") ELSE s
         IN  IF s1.obj[player].side = "none" THEN s1
             ELSE LET s2 == IF s1.obj[player].side = "left"
                            THEN [s1 EXCEPT !.player1ready = TRUE, !.score1 = 0, !.score2 = 0]
                            ELSE [s1 EXCEPT !.player2ready = TRUE, !.score1 = 0, !.score2 = 0]
                  IN  IF Len(s2.players) = Capacity(s2.type) /\ s2.player1ready /\ s2.player2ready
                      THEN kcStartGame(s2) ELSE s2

\* socket.on("keypress"), for the captured player.  col is the prompt column
\* the key belongs to in local mode (0: neither), hit whether the key equals
\* the prompt the handler compares it with
\* keypress without the test of the countdown and of the status
keypressAnyTime(s, player, col, hit) ==
    LET seat == IF s.mode = "remote"
                THEN (IF s.obj[player].side = "left" THEN 1
                      ELSE IF s.obj[player].side = "right" THEN 2 ELSE 0)
                ELSE col
        d == IF hit THEN 1 ELSE -1
        s1 == IF seat = 1 THEN [s EXCEPT !.score1 = s.score1 + d]
              ELSE IF seat = 2 THEN [s EXCEPT !.score2 = s.score2 + d]
              ELSE s
    IN  IF hit /\ seat # 0 THEN Emit(s1, "correctHit") ELSE s1

keypress(s, player, col, hit) ==
    IF s.timeLeft <= 0 \/ s.status # "in-progress" THEN s
    ELSE LET seat == IF s.mode = "remote"
                     THEN (IF s.obj[player].side = "left" THEN 1
                           ELSE IF s.obj[player].side = "right" THEN 2 ELSE 0)
                     ELSE col
             d == IF hit THEN 1 ELSE -1
             s1 == IF seat = 1 THEN [s EXCEPT !.score1 = s.score1 + d]
                   ELSE IF seat = 2 THEN [s EXCEPT !.score2 = s.score2 + d]
                   ELSE s
         IN  IF hit /\ seat # 0 THEN Emit(s1, "correctHit") ELSE s1

\* the setInterval callback of startGame
kcLoopCallback(s, js) ==
    LET s1 == [s EXCEPT !.timeLeft = s.timeLeft - 1]
        i == s.round
    IN  IF ~(s1.timeLeft <= 0 /\ s1.loop # "none") THEN s1
        ELSE LET s2 == [s1 EXCEPT !.loop = "none", !.status = "finished",
                                  !.player1ready = FALSE, !.player2ready = FALSE]
             IN  IF i \notin DOMAIN s2.matches THEN Crash(s2)
                 ELSE LET m == s2.matches[i]
                          w == IF s2.score1 > s2.score2 THEN m.player1 ELSE m.player2
                          s3 == Emit([s2 EXCEPT !.matches[i] =
                                    [m EXCEPT !.winner = w, !.p1score = s2.score1,
                                              !.p2score = s2.score2, !.duration = Countdown]],
                                     "saved")
                          s4 == IF s3.type = "tournament"
                                THEN kcMatchmake([s3 EXCEPT !.round = s3.round + 1], js)
                                ELSE s3
                      IN  IF s4.crashed THEN s4 ELSE Emit(s4, "lobby_update")

\* socket.on("disconnect"), once the room was found in a registry
kcDisconnect(s, c) ==
    LET s1 == RemovePlayerOf(s, c)
    IN  IF s1.type = "tournament" THEN
            LET gone == s1.status # "waiting" \/ Len(s1.players) = 0 \/ s1.mode = "local"
                s2 == IF gone THEN Emit(s1, "disconnection") ELSE s1
                s3 == IF s2.status = "waiting" THEN Emit(s2, "waiting") ELSE s2
            IN  [s |-> Emit(s3, "lobby_update"), keep |-> ~gone]
        ELSE
            LET s2 == IF Len(s1.players) < 2
                      THEN Emit([s1 EXCEPT !.loop = "none", !.status = "waiting",
                                           !.player1ready = FALSE, !.player2ready = FALSE],
                                "waiting")
                      ELSE s1
            IN  [s |-> Emit(s2, "lobby_update"),
                 keep |-> ~(Len(s2.players) = 0 \/ s2.mode = "local")]

(***************************************************************************)
(* quickmatch.ts: setupLobby.  lobby.playersOnline is the pool of the      *)
(* /quickmatch namespace; an entry is [playerId, socketId], the playerId 0 *)
(* standing for null (a guest).                                            *)
(***************************************************************************)
LobbyConns == {"l1", "l2"}

NewLobby == [playersOnline |-> <<>>, closed |-> {}, out |-> {}]

\* findIndex(p => p.socketId === socket.id) and splice(i, 1)
RemoveOnline(l, c) ==
    LET idx == {k \in DOMAIN l.playersOnline : l.playersOnline[k].socketId = c}
    IN  IF idx = {} THEN l
        ELSE LET k == CHOOSE i \in idx : \A j \in idx : i <= j
             IN  [l EXCEPT !.playersOnline = SubSeq(@, 1, k - 1) \o SubSeq(@, k + 1, Len(@))]

\* socket.on("name")
lobbyName(l, c, playerId) ==
    IF playerId # 0 /\ \E k \in DOMAIN l.playersOnline : l.playersOnline[k].playerId = playerId
    THEN [l EXCEPT !.out = {"error"}]
    ELSE [l EXCEPT !.playersOnline = Append(@, [playerId |-> playerId, socketId |-> c]),
                   !.out = {"lobby_update"}]

\* socket.on("join_game"): found and status are what the registry holds for gameId
lobbyJoinGame(l, c, found, status) ==
    IF ~found THEN [l EXCEPT !.out = {"error"}]
    ELSE IF status # "waiting" THEN [l EXCEPT !.out = {"error"}]
    ELSE [RemoveOnline(l, c) EXCEPT !.out = {"lobby_update", "joined_game"}]

\* socket.on("disconnect")
lobbyDisconnect(l, c) ==
    [RemoveOnline(l, c) EXCEPT !.out = {"lobby_update"}, !.closed = @ \cup {c}]

(***************************************************************************)
(* The inputs of the events.  Names and connections are only ever compared *)
(* for equality, so a request draws its names from the names the room has  *)
(* seen plus the next unused name of NamePool (and the names the           *)
(* validation rejects), and connections join in the order of ConnIds.      *)
(***************************************************************************)
UsedNames(s) == {s.obj[i].name : i \in DOMAIN s.obj}

NextFresh(used) ==
    NamePool[CHOOSE i \in DOMAIN NamePool :
                /\ NamePool[i] \notin used
                /\ \A j \in DOMAIN NamePool : j < i => NamePool[j] \in used]

RECURSIVE NameTuples(_, _)
NameTuples(used, k) ==
    IF k = 0 THEN {<<>>}
    ELSE UNION { {<<n>> \o rest : rest \in NameTuples(used \cup {n}, k - 1)} :
                 n \in used \cup {NextFresh(used)} \cup BadNames }

\* the payload of a names event, <<player1, player2, player3, player4>>; a
\* remote client's player2..player4 and a local 1v1 client's player3 and
\* player4 are never read
NameInputs(s) ==
    LET k == IF s.mode = "remote" THEN 1 ELSE Capacity(s.type)
    IN  {[i \in 1..4 |-> IF i <= k THEN nt[i] ELSE nt[1]] : nt \in NameTuples(UsedNames(s), k)}

IdShuffle == [i \in 1..3 |-> i]

\* the values Math.random() can give the shuffle of a handler that can start
\* round 1; no other handler reads them
Shuffles(s) ==
    IF s.type = "tournament" /\ s.round = 0 /\ (s.mode = "local" \/ Len(s.players) >= 3)
    THEN ShuffleChoices(4) ELSE {IdShuffle}

Points == {"none", "left", "right"}

\* The state a handler finds: nothing is emitted yet.  gameEndTime is read by
\* update() and by a resume only, whenPaused by a resume only, and every path to
\* these reads writes them first (resetGame, the pause branch of togglePause),
\* so with no loop and no pause they are kept at the values of a new room.
Begin(s) ==
    LET dead == s.loop = "none" /\ s.status # "paused"
    IN  [s EXCEPT !.out = {},
                  !.gameEndTime = IF dead THEN now + gameDuration ELSE @,
                  !.whenPaused = IF s.status # "paused" THEN now ELSE @]

NewSocket == [phase |-> "fresh", playerSide |-> "left", regs |-> <<>>]

NewRoom(type, mode) ==
    [type |-> type, mode |-> mode, status |-> "waiting", loop |-> "none", orphans |-> 0,
     players |-> <<>>, obj |-> <<>>, matches |-> <<>>, round |-> 0,
     player1ready |-> FALSE, player2ready |-> FALSE,
     gameEndTime |-> gameDuration, whenPaused |-> 0, leftScore |-> 0, rightScore |-> 0,
     score1 |-> 0, score2 |-> 0, timeLeft |-> Countdown,
     out |-> {}, crashed |-> FALSE]

\* The table of a PingPongGame.  Positions are in millionths of a unit of the
\* source, velocities in thousandths per second and time in milliseconds, so
\* that velocity * dt is a position.
\* bounds.x and bounds.z
boundsX == 9600000
boundsZ == 5600000
\* the distance of the paddles from the center line
paddleX == 8200000
\* the reach of a paddle in x and in z
reachX == 1500000
reachZ == 2000000
\* the speed in x of a served ball
serveVx == 6000
\* the cap of dt
maxDt == 33

\* state.ball, state.leftPaddle.z, state.rightPaddle.z, hitter, leftScore and
\* rightScore of a new PingPongGame; age counts the ticks since the ball was
\* served
NewBall ==
    [x |-> 0, z |-> 0, vx |-> serveVx, vz |-> 3500, leftPaddle |-> 0, rightPaddle |-> 0,
     hitter |-> 0, leftScore |-> 0, rightScore |-> 0, age |-> 0]

\* engine names the namespace whose events are followed: the rooms of /pong,
\* the rooms of /keyclash, or the pool of /quickmatch
Init ==
    /\ engine \in {"pong", "keyclash", "lobby"}
    /\ \E type \in {"1v1", "tournament"}, mode \in {"local", "remote"} :
          /\ engine = "lobby" => type = "1v1" /\ mode = "remote"
          /\ room = NewRoom(type, mode)
    /\ sockets = [c \in Conns |-> NewSocket]
    /\ registered = TRUE
    /\ after = 0
    /\ lobby = NewLobby
    /\ ball = NewBall

Alive == ~room.crashed

\* the room holds more players than seats, or has left the registry
Overfull == Len(room.players) > Capacity(room.type)

Counted ==
    LET counting == after > 0 \/ Overfull \/ ~registered
        limit == IF engine = "keyclash" /\ room.type = "1v1" THEN MaxAfterDuel ELSE MaxAfter
    IN  /\ counting => after < limit
        /\ after' = IF counting THEN after + 1 ELSE 0

\* what the bounds allow the model to reach
Within(s) ==
    /\ s.type = "1v1" => s.round <= MaxRounds
    /\ s.orphans <= MaxOrphans

Abs(x) == IF x < 0 THEN -x ELSE x

RECURSIVE SumScores(_, _)
SumScores(ms, k) ==
    IF k > Len(ms) THEN 0
    ELSE Abs(ms[k].p1score) + Abs(ms[k].p2score) + SumScores(ms, k + 1)

ScoreSum(s) ==
    SumScores(s.matches, 1) + s.leftScore + s.rightScore + Abs(s.score1) + Abs(s.score2)

\* a point or a keypress may still change a score
MayScore == ScoreSum(room) < MaxScoreSum

\* Connections that hold no player object and whose sockets are in the same
\* state are interchangeable: of these only the first of ConnIds acts.
Unseated(c) == \A i \in DOMAIN room.obj : room.obj[i].socketId # c

Canon(c) ==
    /\ ConnIndex(c) <= NumConns(room.type, room.mode)
    /\ \A d \in Conns :
          ConnIndex(d) < ConnIndex(c) =>
             ~(sockets[d] = sockets[c] /\ Unseated(d) /\ Unseated(c))

CanJoin(c) == sockets[c].phase = "fresh" /\ Canon(c)

Joined(c) == sockets[c].phase = "joined" /\ Canon(c)

\* join_game_room / join_tournament_room of the three namespaces: the room is
\* looked up in the registry and must be waiting
Join(c) ==
    IF registered /\ room.status = "waiting"
    THEN /\ sockets' = [sockets EXCEPT ![c].phase = "joined"]
         /\ room' = Begin(room)
    ELSE /\ sockets' = sockets
         /\ room' = Emit(Begin(room), "error")

JoinGameRoom(c) ==
    /\ Alive /\ engine = "pong" /\ room.type = "1v1" /\ CanJoin(c)
    /\ Counted
    /\ Join(c)
    /\ UNCHANGED <<engine, registered, lobby, ball>>

JoinTournamentRoom(c) ==
    /\ Alive /\ engine = "pong" /\ room.type = "tournament" /\ CanJoin(c)
    /\ Counted
    /\ Join(c)
    /\ UNCHANGED <<engine, registered, lobby, ball>>

KCJoinGameRoom(c) ==
    /\ Alive /\ engine = "keyclash" /\ CanJoin(c)
    /\ Counted
    /\ Join(c)
    /\ UNCHANGED <<engine, registered, lobby, ball>>

\* the players that were seated by a connection that had seated a player before
Repeats ==
    LET own == {i \in DOMAIN room.obj : room.obj[i].socketId \in Conns}
    IN  Cardinality(own) - Cardinality({room.obj[i].socketId : i \in own})

\* a names event seats 1 player in remote mode and the whole quota in local mode
CanName(c) ==
    /\ Joined(c)
    /\ Len(room.obj) + (IF room.mode = "remote" THEN 1 ELSE Capacity(room.type))
          <= Capacity(room.type) + MaxExtra
    /\ Unseated(c) \/ Repeats < MaxExtra

(***************************************************************************)
(* Object indices stand for heap addresses, and connection ids and names   *)
(* are only compared for equality, so a state is kept up to their          *)
(* renaming: the objects of state.players come first, in the order of      *)
(* state.players, connections are numbered in the order their objects      *)
(* appear, and names in the order they appear.                             *)
(***************************************************************************)
Ascending(S) == [k \in 1..Cardinality(S) |->
                    CHOOSE i \in S : Cardinality({j \in S : j < i}) = k - 1]

Position(seq, x) == CHOOSE k \in DOMAIN seq : seq[k] = x /\ \A l \in 1..(k - 1) : seq[l] # x

\* the distinct elements of seq, in the order of their first occurrence
Firsts(seq) ==
    LET first == {k \in DOMAIN seq : \A l \in 1..(k - 1) : seq[l] # seq[k]}
        ks == Ascending(first)
    IN  [k \in DOMAIN ks |-> seq[ks[k]]]

RenameObjects(s, sk) ==
    LET order == s.players \o Ascending(DOMAIN s.obj \ Range(s.players))
        new(i) == IF i = NoPlayer THEN NoPlayer ELSE Position(order, i)
    IN  [s |-> [s EXCEPT !.obj = [k \in DOMAIN s.obj |-> s.obj[order[k]]],
                         !.players = [k \in DOMAIN s.players |-> new(s.players[k])],
                         !.matches = [k \in DOMAIN s.matches |->
                             [s.matches[k] EXCEPT !.player1 = new(@), !.player2 = new(@),
                                                  !.winner = new(@)]]],
         sk |-> [c \in Conns |->
                    [sk[c] EXCEPT !.regs = [k \in DOMAIN sk[c].regs |-> new(sk[c].regs[k])]]]]

\* the socketId values of the players a local client brings along
LocalIds == <<"p2", "p3", "p4">>

RenameConns(s, sk) ==
    LET ids == [k \in DOMAIN s.obj |-> s.obj[k].socketId]
        seated == Firsts(SelectSeq(ids, LAMBDA x : x \in Conns))
        order == seated \o
                 [k \in 1..(Cardinality(Conns) - Len(seated)) |->
                     ConnIds[Ascending({ConnIndex(c) : c \in Conns \ Range(seated)})[k]]]
        locals == Firsts(SelectSeq(ids, LAMBDA x : x \notin Conns))
        new(c) == IF c \in Conns THEN ConnIds[Position(order, c)]
                  ELSE LocalIds[Position(locals, c)]
    IN  [s |-> [s EXCEPT !.obj = [k \in DOMAIN s.obj |->
                                     [s.obj[k] EXCEPT !.socketId = new(@)]]],
         sk |-> [c \in Conns |-> sk[order[ConnIndex(c)]]]]

RenameNames(s) ==
    LET order == Firsts([k \in DOMAIN s.obj |-> s.obj[k].name])
    IN  [s EXCEPT !.obj = [k \in DOMAIN s.obj |->
                              [s.obj[k] EXCEPT !.name = NamePool[Position(order, @)]]]]

Renamed(s, sk) ==
    LET a == RenameObjects(s, sk)
        b == RenameConns(a.s, a.sk)
    IN  [s |-> RenameNames(b.s), sk |-> b.sk]

Named(r, c) ==
    LET n == Renamed(r.s, [sockets EXCEPT ![c] = r.sk])
    IN  room' = n.s /\ sockets' = n.sk

Names(c) ==
    /\ Alive /\ engine = "pong" /\ room.type = "1v1" /\ CanName(c)
    /\ Counted
    /\ \E nm \in NameInputs(room) : Named(names(Begin(room), sockets[c], c, nm, now), c)
    /\ UNCHANGED <<engine, registered, lobby, ball>>

TournamentNames(c) ==
    /\ Alive /\ engine = "pong" /\ room.type = "tournament" /\ CanName(c)
    /\ Counted
    /\ \E nm \in NameInputs(room), js \in Shuffles(room) :
          Named(tournamentNames(Begin(room), sockets[c], c, nm, js), c)
    /\ UNCHANGED <<engine, registered, lobby, ball>>

KCNames(c) ==
    /\ Alive /\ engine = "keyclash" /\ CanName(c)
    /\ Counted
    /\ \E nm \in NameInputs(room), js \in Shuffles(room) :
          Named(kcNames(Begin(room), sockets[c], c, nm, js), c)
    /\ UNCHANGED <<engine, registered, lobby, ball>>

\* a socket event runs every handler registered for it, in registration order
RECURSIVE RunTournamentSetReady(_, _, _, _)
RunTournamentSetReady(s, regs, k, t) ==
    IF k > Len(regs) \/ s.crashed THEN s
    ELSE RunTournamentSetReady(tournamentSetReady(s, regs[k], t), regs, k + 1, t)

RECURSIVE RunKcSetReady(_, _, _)
RunKcSetReady(s, regs, k) ==
    IF k > Len(regs) \/ s.crashed THEN s
    ELSE RunKcSetReady(kcSetReady(s, regs[k]), regs, k + 1)

RECURSIVE RunKeypress(_, _, _, _, _)
RunKeypress(s, regs, k, col, hit) ==
    IF k > Len(regs) \/ s.crashed THEN s
    ELSE RunKeypress(keypress(s, regs[k], col, hit), regs, k + 1, col, hit)

SetReady(c) ==
    /\ Alive /\ engine = "pong" /\ room.type = "1v1" /\ Joined(c)
    /\ Counted
    /\ room' = setReady(Begin(room), sockets[c], now)
    /\ Within(room')
    /\ UNCHANGED <<engine, sockets, registered, lobby, ball>>

TournamentSetReady(c) ==
    /\ Alive /\ engine = "pong" /\ room.type = "tournament" /\ Joined(c)
    /\ Counted
    /\ room' = RunTournamentSetReady(Begin(room), sockets[c].regs, 1, now)
    /\ UNCHANGED <<engine, sockets, registered, lobby, ball>>

KCSetReady(c) ==
    /\ Alive /\ engine = "keyclash" /\ Joined(c)
    /\ Counted
    /\ room' = RunKcSetReady(Begin(room), sockets[c].regs, 1)
    /\ Within(room')
    /\ UNCHANGED <<engine, sockets, registered, lobby, ball>>

Restart(c) ==
    /\ Alive /\ engine = "pong" /\ room.type = "1v1" /\ Joined(c)
    /\ Counted
    /\ room' = restart(Begin(room), now)
    /\ Within(room')
    /\ UNCHANGED <<engine, sockets, registered, lobby, ball>>

Pause(c) ==
    /\ Alive /\ engine = "pong" /\ Joined(c)
    /\ Counted
    /\ room' = pause(Begin(room), now)
    /\ UNCHANGED <<engine, sockets, registered, lobby, ball>>

Keypress(c) ==
    /\ Alive /\ engine = "keyclash" /\ Joined(c)
    /\ Counted
    /\ MayScore
    /\ \E col \in (IF room.mode = "local" THEN 0..2 ELSE {0}), hit \in BOOLEAN :
          room' = RunKeypress(Begin(room), sockets[c].regs, 1, col, hit)
    /\ UNCHANGED <<engine, sockets, registered, lobby, ball>>

\* one firing of the room's setInterval timer
Tick ==
    /\ Alive /\ engine = "pong" /\ room.loop # "none"
    /\ Counted
    /\ \E pt \in (IF MayScore THEN Points ELSE {"none"}), js \in Shuffles(room),
          s \in {Begin(room)} :
          room' = IF room.loop = "resume" THEN resumeLoopCallback(s, now, pt, js)
                  ELSE IF room.type = "tournament"
                  THEN tournamentLoopCallback(s, now, pt, js)
                  ELSE loopCallback(s, now, pt)
    /\ UNCHANGED <<engine, sockets, registered, lobby, ball>>

KCTick ==
    /\ Alive /\ engine = "keyclash" /\ (room.loop # "none" \/ room.orphans > 0)
    /\ Counted
    /\ room.timeLeft > -MaxUnder
    /\ \E js \in Shuffles(room), s \in {Begin(room)} : room' = kcLoopCallback(s, js)
    /\ UNCHANGED <<engine, sockets, registered, lobby, ball>>

Closed(r, c) ==
    LET n == Renamed(r.s, [sockets EXCEPT ![c].phase = "closed"])
    IN  room' = n.s /\ sockets' = n.sk /\ registered' = r.keep

\* Once the room has left the registry the disconnect handler returns before it
\* touches the room (if (!game) return), so only disconnects of a registered
\* room are followed.
Disconnect(c) ==
    /\ Alive /\ engine = "pong" /\ Joined(c) /\ registered
    /\ Counted
    /\ Closed(disconnect(Begin(room), c), c)
    /\ UNCHANGED <<engine, lobby, ball>>

KCDisconnect(c) ==
    /\ Alive /\ engine = "keyclash" /\ Joined(c) /\ registered
    /\ Counted
    /\ Closed(kcDisconnect(Begin(room), c), c)
    /\ UNCHANGED <<engine, lobby, ball>>

\* performance.now() advances by one unit between two events.  The clock is
\* read by update() and by a resume only, and every other path to them passes
\* resetGame, so time that passes with no loop and no pause is not observable;
\* whenPaused is read only while the room is paused.
TimePasses ==
    /\ Alive /\ engine = "pong"
    /\ Counted
    /\ room.loop # "none" \/ room.status = "paused"
    /\ room.gameEndTime > -MaxLate
    /\ room.status = "paused" => room.whenPaused > -MaxPause
    /\ room' = [Begin(room) EXCEPT !.gameEndTime = @ - 1,
                                   !.whenPaused = IF room.status = "paused" THEN @ - 1 ELSE @]
    /\ UNCHANGED <<engine, sockets, registered, lobby, ball>>

Statuses == {"waiting", "starting", "in-progress", "paused", "finished"}

LobbyName(c) ==
    /\ engine = "lobby" /\ c \notin lobby.closed
    /\ \E playerId \in 0..MaxIds : lobby' = lobbyName(lobby, c, playerId)
    /\ Len(lobby'.playersOnline) <= MaxLobby
    /\ UNCHANGED <<engine, room, sockets, registered, after, ball>>

LobbyJoinGame(c) ==
    /\ engine = "lobby" /\ c \notin lobby.closed
    /\ \E found \in BOOLEAN, status \in Statuses :
          lobby' = lobbyJoinGame(lobby, c, found, status)
    /\ UNCHANGED <<engine, room, sockets, registered, after, ball>>

LobbyDisconnect(c) ==
    /\ engine = "lobby" /\ c \notin lobby.closed
    /\ lobby' = lobbyDisconnect(lobby, c)
    /\ UNCHANGED <<engine, room, sockets, registered, after, ball>>

Next ==
    \/ \E c \in Conns : JoinGameRoom(c)
    \/ \E c \in Conns : JoinTournamentRoom(c)
    \/ \E c \in Conns : KCJoinGameRoom(c)
    \/ \E c \in Conns : Names(c)
    \/ \E c \in Conns : TournamentNames(c)
    \/ \E c \in Conns : KCNames(c)
    \/ \E c \in Conns : SetReady(c)
    \/ \E c \in Conns : TournamentSetReady(c)
    \/ \E c \in Conns : KCSetReady(c)
    \/ \E c \in Conns : Restart(c)
    \/ \E c \in Conns : Pause(c)
    \/ \E c \in Conns : Keypress(c)
    \/ \E c \in Conns : Disconnect(c)
    \/ \E c \in Conns : KCDisconnect(c)
    \/ Tick
    \/ KCTick
    \/ TimePasses
    \/ \E c \in LobbyConns : LobbyName(c)
    \/ \E c \in LobbyConns : LobbyJoinGame(c)
    \/ \E c \in LobbyConns : LobbyDisconnect(c)

Spec == Init /\ [][Next]_vars

(***************************************************************************)
(* PingPongGame.ts: the flight of the ball.  The table is followed on its  *)
(* own, for a round that is in progress: ticks of update(), move events    *)
(* and resetGame() in any order.  Math.random() is the input r.            *)
(***************************************************************************)
\* a / b rounded towards zero
Quot(a, b) == IF a >= 0 THEN a \div b ELSE -((-a) \div b)

\* Math.min((now - this.last) / 1000, 0.033)
Dt(elapsed) == IF elapsed < maxDt THEN elapsed ELSE maxDt

\* (Math.random() > 0.5 ? 1 : -1) * 6 and (Math.random() - 0.5) * 4
Serves == {[vx |-> sx * serveVx, vz |-> vz] : sx \in {-1, 1}, vz \in {-2000, 0, 1999}}

\* update(): move ball
moveBall(b, dt) ==
    [b EXCEPT !.z = b.z + b.vz * dt, !.x = b.x + b.vx * dt, !.age = b.age + 1]

\* update(): bounce on table sides (z)
bounce(b) ==
    IF b.z > boundsZ \/ b.z < -boundsZ
    THEN [b EXCEPT !.z = IF b.z > boundsZ THEN boundsZ ELSE -boundsZ, !.vz = -b.vz]
    ELSE b

paddleHit(b, px, pz) == Abs(b.x - px) < reachX /\ Abs(b.z - pz) < reachZ

\* update(): paddle collision
collideLeft(b) ==
    IF paddleHit(b, -paddleX, b.leftPaddle) /\ b.vx < 0
    THEN [b EXCEPT !.vx = -Quot(b.vx * 105, 100),
                   !.vz = b.vz + Quot((b.z - b.leftPaddle) * 2, 1000),
                   !.hitter = 1]
    ELSE b

collideRight(b) ==
    IF paddleHit(b, paddleX, b.rightPaddle) /\ b.vx > 0
    THEN [b EXCEPT !.vx = -Quot(b.vx * 105, 100),
                   !.vz = b.vz + Quot((b.z - b.rightPaddle) * 2, 1000),
                   !.hitter = 2]
    ELSE b

\* the served ball
served(b, r) == [b EXCEPT !.x = 0, !.z = 0, !.vx = r.vx, !.vz = r.vz, !.age = 0]

\* score and reset with the point awarded whether or not a paddle has hit the ball
scoreAndResetUntagged(b, r) ==
    IF b.x < -boundsX THEN served([b EXCEPT !.hitter = 0, !.rightScore = @ + 1], r)
    ELSE IF b.x > boundsX THEN served([b EXCEPT !.hitter = 0, !.leftScore = @ + 1], r)
    ELSE b

\* update(): score and reset
scoreAndReset(b, r) ==
    IF b.x < -boundsX \/ b.x > boundsX
    THEN served(IF b.x < -boundsX /\ b.hitter # 0
                THEN [b EXCEPT !.hitter = 0, !.rightScore = @ + 1]
                ELSE IF b.x > boundsX /\ b.hitter # 0
                THEN [b EXCEPT !.hitter = 0, !.leftScore = @ + 1]
                ELSE b, r)
    ELSE b

\* update() with the ball reflected at the table sides but not clamped to them
updateBallUnclamped(b, elapsed, r) ==
    LET m == moveBall(b, Dt(elapsed))
        m1 == IF m.z > boundsZ \/ m.z < -boundsZ THEN [m EXCEPT !.vz = -m.vz] ELSE m
    IN  scoreAndReset(collideRight(collideLeft(m1)), r)

\* update() of a round in progress that goes on, the ball's part
updateBall(b, elapsed, r) ==
    scoreAndReset(collideRight(collideLeft(bounce(moveBall(b, Dt(elapsed))))), r)

\* resetGame(), the table's part
resetBall(b, r) ==
    [served(b, r) EXCEPT !.leftPaddle = 0, !.rightPaddle = 0,
                         !.hitter = 0, !.leftScore = 0, !.rightScore = 0]

\* the period of the timer, 1000 / 60 milliseconds
period == 17

\* milliseconds between two firings of the timer: the period, or more when the
\* timer is late
Elapsed == {period, 40}

\* positions a client sends with move
PaddleZs == {0, 4000000}

\* ticks for which a served ball is followed
MaxFlight == 230

BallInit ==
    /\ engine = "pong"
    /\ room = NewRoom("1v1", "local")
    /\ sockets = [c \in Conns |-> NewSocket]
    /\ registered = TRUE
    /\ after = 0
    /\ lobby = NewLobby
    /\ ball = NewBall

\* one firing of the timer in a round that goes on (neither score has reached
\* maxScore); the timer is late at most for the first tick of a served ball,
\* for which this.last is the time of the serve
BallTick ==
    /\ ball.age < MaxFlight
    /\ ball.leftScore < maxScore /\ ball.rightScore < maxScore
    /\ \E elapsed \in (IF ball.age = 0 THEN Elapsed ELSE {period}), r \in Serves :
          ball' = updateBall(ball, elapsed, r)
    /\ UNCHANGED <<engine, room, sockets, registered, after, lobby>>

\* socket.on("move")
Move ==
    /\ \E positionZ \in PaddleZs :
          \/ ball' = [ball EXCEPT !.leftPaddle = positionZ]
          \/ ball' = [ball EXCEPT !.rightPaddle = positionZ]
    /\ UNCHANGED <<engine, room, sockets, registered, after, lobby>>

ResetGame ==
    /\ \E r \in Serves : ball' = resetBall(ball, r)
    /\ UNCHANGED <<engine, room, sockets, registered, after, lobby>>

BallNext == BallTick \/ Move \/ ResetGame

BallSpec == BallInit /\ [][BallNext]_vars

(***************************************************************************)
(* The rooms with a timer that fires and a clock that advances: setInterval *)
(* keeps firing the callback of a live timer and performance.now() grows.  *)
(* No connection pauses the round or disconnects.                          *)
(***************************************************************************)
LiveInit == Init /\ engine # "lobby"

LiveNext ==
    \/ \E c \in Conns : JoinGameRoom(c)
    \/ \E c \in Conns : JoinTournamentRoom(c)
    \/ \E c \in Conns : KCJoinGameRoom(c)
    \/ \E c \in Conns : Names(c)
    \/ \E c \in Conns : TournamentNames(c)
    \/ \E c \in Conns : KCNames(c)
    \/ \E c \in Conns : SetReady(c)
    \/ \E c \in Conns : TournamentSetReady(c)
    \/ \E c \in Conns : KCSetReady(c)
    \/ \E c \in Conns : Restart(c)
    \/ \E c \in Conns : Keypress(c)
    \/ Tick
    \/ KCTick
    \/ TimePasses

LiveSpec ==
    LiveInit /\ [][LiveNext]_vars /\ WF_vars(Tick) /\ WF_vars(KCTick) /\ WF_vars(TimePasses)

(***************************************************************************)
(* The tournament rooms, with the same timer and clock, whose clients send *)
(* setReady as long as it has an effect.                                   *)
(***************************************************************************)
TourneyInit == LiveInit /\ room.type = "tournament"

TourneyNext ==
    \/ \E c \in Conns : JoinTournamentRoom(c)
    \/ \E c \in Conns : KCJoinGameRoom(c)
    \/ \E c \in Conns : TournamentNames(c)
    \/ \E c \in Conns : KCNames(c)
    \/ \E c \in Conns : TournamentSetReady(c)
    \/ \E c \in Conns : KCSetReady(c)
    \/ \E c \in Conns : Keypress(c)
    \/ Tick
    \/ KCTick
    \/ TimePasses

\* a connection sends a setReady that is not ignored
Ready ==
    /\ \E c \in Conns : TournamentSetReady(c) \/ KCSetReady(c)
    /\ <<room'.player1ready, room'.player2ready, room'.status>>
          # <<room.player1ready, room.player2ready, room.status>>

TourneySpec ==
    /\ TourneyInit /\ [][TourneyNext]_vars
    /\ WF_vars(Tick \/ KCTick) /\ WF_vars(TimePasses) /\ WF_vars(Ready)

(***************************************************************************)
(* Properties.                                                             *)
(***************************************************************************)
\* connection c holds a player of state.players that is seated on side
Seated(c, side) ==
    \E k \in DOMAIN room.players :
        /\ room.obj[room.players[k]].socketId = c
        /\ room.obj[room.players[k]].side = side

SetReadyBy(c) == SetReady(c) \/ TournamentSetReady(c) \/ KCSetReady(c)

\* the step is the firing of the room's timer that ends the round
RoundEnds ==
    /\ Tick \/ KCTick
    /\ room.loop # "none" /\ room'.loop = "none" /\ ~room'.crashed

\* the scores of the running round are equal
Tie == IF engine = "pong" THEN room.leftScore = room.rightScore
       ELSE room.score1 = room.score2

\* C1: at every reachable state a 1v1 room holds at most 2 participants and a
\* tournament room at most 4, in the rooms of both engines.
RoomWithinCapacity == Len(room.players) <= Capacity(room.type)

\* C2: in remote mode a readiness flag is raised only by a set_ready of a
\* connection whose player is seated on that side of the current match, the
\* step from starting to in-progress is a set_ready after which each of the two
\* seats has a flag raised by its own player, and a flag does not outlive the
\* seating of the player who raised it.
ReadyComesFromTheSeated ==
    [][room.mode = "remote" =>
          /\ (room'.player1ready /\ ~room.player1ready) =>
                \E c \in Conns : SetReadyBy(c) /\ Seated(c, "left")
          /\ (room'.player2ready /\ ~room.player2ready) =>
                \E c \in Conns : SetReadyBy(c) /\ Seated(c, "right")
          /\ (room.status = "starting" /\ room'.status = "in-progress") =>
                \E c \in Conns :
                    /\ SetReadyBy(c)
                    /\ room.player1ready \/ Seated(c, "left")
                    /\ room.player2ready \/ Seated(c, "right")
          /\ (room.player1ready /\ FindSide(room', "left") # FindSide(room, "left")) =>
                ~room'.player1ready
          /\ (room.player2ready /\ FindSide(room', "right") # FindSide(room, "right")) =>
                ~room'.player2ready]_vars

\* C3: at every reachable state a room whose status is not in-progress has no
\* active tick timer.
IdleRoomHasNoTimer ==
    room.status # "in-progress" => room.loop = "none" /\ room.orphans = 0

\* C4: a room that a disconnect has removed from the registry has no active
\* tick timer.
RemovedRoomHasNoTimer ==
    ~registered => room.loop = "none" /\ room.orphans = 0

\* C5: when the room is in-progress with an active tick timer, a set_ready of
\* any connection and a restart in local mode leave the timer as it is, start
\* no other timer and append no Match.
StartTriggerIsNoOp ==
    [][\A c \in Conns :
          (/\ room.status = "in-progress" /\ room.loop # "none"
           /\ SetReadyBy(c) \/ (Restart(c) /\ room.mode = "local"))
          => /\ room'.loop = room.loop
             /\ room'.orphans = room.orphans
             /\ room'.matches = room.matches
             /\ room'.round = room.round
             /\ room'.status = "in-progress"]_vars

\* a restart has found the local Paddle room in-progress, some time after the
\* round began (only startGame emits lobby_update and leaves the loop of a
\* start running, and a first start leaves the full round budget)
RestartedWhileRunning ==
    /\ engine = "pong" /\ room.type = "1v1" /\ room.mode = "local" /\ registered
    /\ room.status = "in-progress" /\ room.loop = "start"
    /\ room.out = {"lobby_update"}
    /\ room.gameEndTime < now + gameDuration
    /\ Len(room.matches) = 1 /\ room.round = 1

\* C6: whenever round 3 of a tournament is starting or in-progress the room
\* holds exactly three Matches and the third pairs the winner of the first
\* (player1) with the winner of the second (player2).
FinalPairsTheWinners ==
    (room.type = "tournament" /\ room.round = 3
        /\ room.status \in {"starting", "in-progress"})
    => /\ Len(room.matches) = 3
       /\ room.matches[1].winner # NoPlayer
       /\ room.matches[2].winner # NoPlayer
       /\ room.matches[3].player1 = room.matches[1].winner
       /\ room.matches[3].player2 = room.matches[2].winner

\* the two semifinals of the order state.players has after the shuffle
Semifinals(s) ==
    /\ Len(s.players) = 4 /\ Cardinality(Range(s.players)) = 4
    /\ s.matches = <<Match(s.players[1], s.players[2]), Match(s.players[3], s.players[4])>>
    /\ s.obj[s.players[1]].side = "left" /\ s.obj[s.players[2]].side = "right"
    /\ s.obj[s.players[3]].side = "none" /\ s.obj[s.players[4]].side = "none"

\* C7: the step that seats the fourth participant of a tournament room of the
\* registry leaves exactly two Matches, (players[0] vs players[1]) and
\* (players[2] vs players[3]) of the shuffled order, with four different
\* players, the first pair seated left and right and the second pair unseated.
FourthSeatingMakesSemifinals ==
    [][(room.type = "tournament" /\ registered
          /\ Len(room.players) < 4 /\ Len(room'.players) >= 4)
       => Semifinals(room')]_vars

\* the fourth participant has just been seated: round 1 waits for its players
SemifinalsMade ==
    /\ room.type = "tournament" /\ registered /\ room.mode = "remote"
    /\ room.round = 1 /\ room.status = "starting"
    /\ Len(room.players) = 4 /\ Len(room.matches) = 2
    /\ "lobby_update" \in room.out

\* C8: when a round of a tournament ends, its Match has a winner, and with
\* equal scores the winner is its player2, in both engines.
TournamentTieGoesToSeatB ==
    [][(room.type = "tournament" /\ RoundEnds)
       => /\ room.round \in DOMAIN room'.matches
          /\ room'.matches[room.round].winner # NoPlayer
          /\ Tie => room'.matches[room.round].winner = room'.matches[room.round].player2]_vars

\* a round of a tournament has just ended with equal scores
TournamentTieRecorded ==
    /\ room.type = "tournament" /\ "saved" \in room.out
    /\ room.round - 1 \in DOMAIN room.matches
    /\ room.matches[room.round - 1].p1score = room.matches[room.round - 1].p2score
    /\ room.matches[room.round - 1].winner = room.matches[room.round - 1].player2
    /\ room.matches[room.round - 1].winner # NoPlayer

\* C9: when a round of a 1v1 room ends with equal scores, the winner of its
\* Match stays empty, in both engines.
TieHasNoWinnerIn1v1 ==
    [][(room.type = "1v1" /\ RoundEnds /\ Tie)
       => /\ room.round \in DOMAIN room'.matches
          /\ room'.matches[room.round].winner = NoPlayer]_vars

\* the third round of the tournament has been played to its end
Terminal(s) ==
    /\ s.type = "tournament" /\ s.status = "finished" /\ s.round > 3
    /\ Len(s.matches) = 3 /\ s.matches[3].winner # NoPlayer

\* C10: once the third round of a tournament has finished, a set_ready, pause
\* or names event leaves the status finished, the round index and the Matches
\* as they are and starts no timer, in both engines.
FinishedTournamentIsTerminal ==
    [][\A c \in Conns :
          (/\ Terminal(room)
           /\ SetReadyBy(c) \/ Pause(c) \/ TournamentNames(c) \/ KCNames(c))
          => /\ room'.status = "finished"
             /\ room'.round = room.round
             /\ Len(room'.matches) = Len(room.matches)
             /\ room'.loop = "none"
             /\ room'.orphans = room.orphans]_vars

\* the fields of the room a rejection must leave alone
SameRoom(a, b) ==
    /\ a.players = b.players /\ a.obj = b.obj /\ a.status = b.status /\ a.round = b.round
    /\ a.matches = b.matches /\ a.player1ready = b.player1ready
    /\ a.player2ready = b.player2ready

JoinBy(c) == JoinGameRoom(c) \/ JoinTournamentRoom(c) \/ KCJoinGameRoom(c)

\* what the names handler of the room's namespace makes of the payload nm
NamesResult(c, nm) ==
    IF engine = "keyclash" THEN kcNames(Begin(room), sockets[c], c, nm, IdShuffle).s
    ELSE IF room.type = "tournament"
    THEN tournamentNames(Begin(room), sockets[c], c, nm, IdShuffle).s
    ELSE names(Begin(room), sockets[c], c, nm, now).s

SeatedNamesDistinct ==
    \A i, j \in DOMAIN room.players :
        i # j => room.obj[room.players[i]].name # room.obj[room.players[j]].name

\* C13: whenever a remote 1v1 room holds two players, one of them is seated
\* left and the other right.
PairHoldsBothSeats ==
    (room.type = "1v1" /\ room.mode = "remote" /\ Len(room.players) = 2)
    => {room.obj[room.players[k]].side : k \in 1..2} = {"left", "right"}

\* C14: a registered room is starting, in progress or paused only while it
\* holds at least as many players as its type has seats.
ActiveOnlyWhenFull ==
    (registered /\ room.status \in {"starting", "in-progress", "paused"})
    => Len(room.players) >= Capacity(room.type)

\* C15: every step that brings a registered room into status starting leaves
\* both readiness flags false.
StartingClearsReadiness ==
    [][(registered' /\ room.status # "starting" /\ room'.status = "starting")
       => (~room'.player1ready /\ ~room'.player2ready)]_vars

\* C16: the timer firing that ends a round hands the round's result to
\* saveGameResult.
EveryRoundIsSaved == [][RoundEnds => "saved" \in room'.out]_vars

\* C17: once a disconnect has removed a tournament room from the registry the
\* tournament is not continued: no later step changes its round, its matches
\* or its status.
TornDownTournamentStops ==
    [][(~registered /\ room.type = "tournament" /\ Alive)
       => /\ room'.round = room.round
          /\ room'.matches = room.matches
          /\ room'.status = room.status]_vars

\* the step is a disconnect from a remote 1v1 room that leaves one player
OneRemains ==
    /\ engine # "lobby" /\ room.type = "1v1" /\ room.mode = "remote"
    /\ Len(room'.players) = 1 /\ Len(room.players) > 1

\* C18: a disconnect from a remote 1v1 room that leaves one player keeps the
\* room registered, sets it waiting and leaves no timer of the room running.
LoneRoomWaits ==
    [][OneRemains => /\ registered'
                     /\ room'.status = "waiting"
                     /\ room'.loop = "none" /\ room'.orphans = 0]_vars

\* C19: every step that removes a room from the registry emits the
\* disconnection event to the room.
RemovalIsAnnounced ==
    [][(registered /\ ~registered') => "disconnection" \in room'.out]_vars

\* C20: after every tick the ball is on the table, |ball.x| <= 9.6 and
\* |ball.z| <= 5.6; a ball that has crossed a table side is put on the side
\* with its z-velocity reversed, and a ball that has crossed an end of the
\* table is put to the center.
BallStaysOnTable ==
    /\ Abs(ball.x) <= boundsX /\ Abs(ball.z) <= boundsZ
    /\ \A elapsed \in Elapsed, r \in Serves :
          LET m == moveBall(ball, Dt(elapsed))
              n == updateBall(ball, elapsed, r)
          IN  /\ Abs(m.z) > boundsZ => /\ Abs(bounce(m).z) = boundsZ
                                       /\ bounce(m).vz = -m.vz
                                       /\ (bounce(m).z > 0) = (m.z > 0)
              /\ Abs(m.x) > boundsX => n.x = 0 /\ n.z = 0
              /\ Abs(n.x) <= boundsX /\ Abs(n.z) <= boundsZ

\* a ball that a paddle has sped up has crossed a table side
FastBallBounced == Abs(ball.vx) > serveVx /\ Abs(ball.z) = boundsZ

\* C21: a ball that crosses an end of the table scores nothing when no paddle
\* has hit it since it was served, and otherwise scores one point for the side
\* opposite the end it crossed; either way it is served anew from the center
\* with the hit tag cleared.
CrossingScoresByTag ==
    \A elapsed \in Elapsed, r \in Serves :
        LET c == collideRight(collideLeft(bounce(moveBall(ball, Dt(elapsed)))))
            n == scoreAndReset(c, r)
            pts == <<n.leftScore - c.leftScore, n.rightScore - c.rightScore>>
        IN  Abs(c.x) > boundsX =>
              /\ c.hitter = 0 => pts = <<0, 0>>
              /\ (c.hitter # 0 /\ c.x > boundsX) => pts = <<1, 0>>
              /\ (c.hitter # 0 /\ c.x < -boundsX) => pts = <<0, 1>>
              /\ n.x = 0 /\ n.z = 0 /\ n.vx = r.vx /\ n.vz = r.vz /\ n.hitter = 0
              /\ n = updateBall(ball, elapsed, r)

\* a ball that a paddle had hit has crossed an end and scored
TouchedBallScored == ball.age = 0 /\ ball.hitter = 0 /\ ball.leftScore + ball.rightScore = 1

\* C22: in a Reaction round in progress with the countdown above zero, a step
\* that changes a score changes the score of one seat only, by exactly one,
\* and emits correctHit when it raises the score.
KeypressMovesOneScore ==
    [][(/\ engine = "keyclash"
        /\ room.status = "in-progress" /\ room'.status = "in-progress"
        /\ room.timeLeft > 0
        /\ <<room'.score1, room'.score2>> # <<room.score1, room.score2>>)
       => /\ \/ room'.score2 = room.score2 /\ Abs(room'.score1 - room.score1) = 1
             \/ room'.score1 = room.score1 /\ Abs(room'.score2 - room.score2) = 1
          /\ (room'.score1 > room.score1 \/ room'.score2 > room.score2)
                => "correctHit" \in room'.out]_vars

\* C23: a pause event changes a room only when the room is a local Paddle
\* room that is in progress, which it pauses with its timer stopped, or paused,
\* which it resumes with a timer running; a round whose timer runs is always
\* paused, a paused round is always resumed, and a remote room and a room that
\* is waiting, starting or finished are left as they are.
PauseTogglesLocalRound ==
    [][\A c \in Conns : Pause(c) =>
          LET same == [room' EXCEPT !.out = {}] = Begin(room)
              pauses == /\ room.mode = "local" /\ room.status = "in-progress"
                        /\ room'.status = "paused" /\ room'.loop = "none"
              resumes == /\ room.mode = "local" /\ room.status = "paused"
                         /\ room'.status = "in-progress" /\ room'.loop = "resume"
          IN  /\ same \/ pauses \/ resumes
              /\ (room.mode = "local" /\ room.loop # "none") => pauses
              /\ (room.mode = "local" /\ room.status = "paused") => resumes
              /\ (room.mode = "remote" \/ room.status \in {"waiting", "starting", "finished"})
                    => same]_vars

\* a local round is paused
LocalRoundPaused == engine = "pong" /\ room.mode = "local" /\ room.status = "paused"

\* C24: while a tournament room is waiting none of its players is seated left
\* or right.
WaitingTournamentIsUnseated ==
    (room.type = "tournament" /\ room.status = "waiting")
    => \A k \in DOMAIN room.players : room.obj[room.players[k]].side = "none"

\* C25: a finished 1v1 room keeps its status, its matches and its stopped
\* timer under every step but a restart request (restart of the Paddle room,
\* setReady of the Reaction room), which makes it starting, and a disconnect.
FinishedUntilRestart ==
    [][(room.type = "1v1" /\ room.status = "finished" /\ Alive)
       => \/ /\ room'.status = "finished"
             /\ Len(room'.matches) = Len(room.matches)
             /\ room'.loop = "none"
          \/ /\ \E c \in Conns : Restart(c) \/ KCSetReady(c)
             /\ room'.status = "starting"
          \/ \E c \in Conns : Disconnect(c) \/ KCDisconnect(c)]_vars

\* C26: no room has a live timer besides the one state.interval / state.loop
\* refers to.
OneTimerPerRoom == room.orphans = 0

\* C27: when a Reaction round ends with unequal scores, the winner recorded in
\* the round's match is the player who sat, during the round, on the side of
\* the higher score (score1 is the left seat's, score2 the right seat's).
HigherScoreWins ==
    [][(RoundEnds /\ engine = "keyclash" /\ room.loop # "none" /\ room.score1 # room.score2
          /\ room.round \in DOMAIN room'.matches)
       => LET w == room'.matches[room.round].winner
          IN  /\ w \in DOMAIN room.obj
              /\ room.obj[w].side = IF room.score1 > room.score2 THEN "left" ELSE "right"]_vars

\* C28: in a remote room no two players carry the same connection id.
OneSeatPerConnection ==
    room.mode = "remote" =>
        \A i, j \in DOMAIN room.players :
            i # j => room.obj[room.players[i]].socketId # room.obj[room.players[j]].socketId

\* C29: the disconnect of a connection that has no player in the room leaves
\* the room registered, with its status, its players and its timer as they
\* were, and emits no disconnection event.
UnseatedLeavesQuietly ==
    [][\A c \in Conns :
         ((Disconnect(c) \/ KCDisconnect(c)) /\ Unseated(c))
         => /\ registered'
            /\ room'.status = room.status
            /\ Len(room'.players) = Len(room.players)
            /\ room'.loop = room.loop
            /\ "disconnection" \notin room'.out]_vars

\* C30: a room that is in progress has its timer running.
RunningRoundHasTimer == (Alive /\ room.status = "in-progress") => room.loop # "none"

\* what the claim of C31 says of the number of matches of a tournament at a round index
MatchesAtRound(r) == IF r = 0 THEN 0 ELSE IF r <= 2 THEN 2 ELSE 3

\* C31: the round index and the match list stay consistent: in a 1v1 room the
\* round index is the number of matches; in a tournament room the round index
\* is within 0..4 and there are 0 matches before the seeding, 2 during rounds 1
\* and 2 and 3 from round 3 on; a round that is ticking has its match at the
\* round index.
RoundTracksMatches ==
    engine # "lobby" =>
        /\ room.type = "1v1" => room.round = Len(room.matches)
        /\ room.type = "tournament" =>
              /\ room.round \in 0..4
              /\ Len(room.matches) = MatchesAtRound(room.round)
        /\ room.status = "in-progress" /\ room.loop # "none" => room.round \in DOMAIN room.matches

\* the fields of a match that renaming the objects of the heap leaves alone
Outcome(m) ==
    [p1score |-> m.p1score, p2score |-> m.p2score, duration |-> m.duration,
     toSeatA |-> m.winner = m.player1, toSeatB |-> m.winner = m.player2]

\* the step seats a player or closes a connection, after which the objects of
\* the heap are renumbered
Renumbering == sockets' # sockets \/ Len(room'.obj) # Len(room.obj)

RoundSeatsItsMatch ==
    (/\ engine # "lobby" /\ registered /\ room.type = "tournament"
     /\ room.status \in {"starting", "in-progress"} /\ room.round \in 1..3) =>
        /\ room.round \in DOMAIN room.matches
        /\ \A k \in DOMAIN room.players :
              LET i == room.players[k]
                  m == room.matches[room.round]
              IN  room.obj[i].side = IF i = m.player1 THEN "left"
                                     ELSE IF i = m.player2 THEN "right" ELSE "none"

OutOfEvents ==
    /\ after > 0 \/ Overfull \/ ~registered
    /\ after >= (IF engine = "keyclash" /\ room.type = "1v1" THEN MaxAfterDuel ELSE MaxAfter)

\* C35: with a timer that fires and a clock that advances, and with no pause
\* and no disconnect, every round that enters in-progress is finished in the
\* end: the room becomes finished or goes on to a later round.
EveryRoundFinishes ==
    \A r \in 0..4 :
        (room.status = "in-progress" /\ room.round = r)
            ~> (room.status = "finished" \/ room.round > r \/ OutOfEvents)

\* the tournament has seated its four participants and nobody else
FourSeated == Len(room.obj) = 4 /\ Len(room.players) = 4

\* three matches with a winner each, the third between the winners of the
\* first two
BracketPlayed(s) ==
    /\ s.round = 4 /\ Len(s.matches) = 3
    /\ \A k \in 1..3 : s.matches[k].winner \in {s.matches[k].player1, s.matches[k].player2}
    /\ s.matches[3].player1 = s.matches[1].winner
    /\ s.matches[3].player2 = s.matches[2].winner

\* C36: a tournament of four seated participants whose seated players signal
\* ready, with the timer firing and nobody disconnecting, is finished only with
\* its three matches played, each with a winner, the champion being the winner
\* of the third match and of one of the semifinals, and it does get there.
TournamentPlaysThreeMatches ==
    /\ [](FourSeated /\ room.status = "finished" => BracketPlayed(room))
    /\ FourSeated ~> ((room.status = "finished" /\ BracketPlayed(room))
                         \/ ~FourSeated \/ OutOfEvents)

\* the scores of the round that is played
Scores(s) == <<s.leftScore, s.rightScore>>

\* C37: a pause notes the time and leaves the end of the round and the scores
\* alone; while the room is paused the time that was left at the pause and the
\* scores stay; the resume moves the end of the round by the length of the
\* pause, so that the time left after it is the time that was left at the
\* pause, with the scores and the ball as they were.
ResumeRestoresTimeLeft ==
    [][/\ (room.status # "paused" /\ room'.status = "paused") =>
              /\ room'.whenPaused = now
              /\ room'.gameEndTime = room.gameEndTime
              /\ Scores(room') = Scores(room) /\ ball' = ball
       /\ (room.status = "paused" /\ room'.status = "paused") =>
              /\ room'.gameEndTime - room'.whenPaused = room.gameEndTime - room.whenPaused
              /\ Scores(room') = Scores(room) /\ ball' = ball
       /\ (room.status = "paused" /\ room'.status = "in-progress" /\ room'.loop = "resume") =>
              /\ room'.gameEndTime - now = room.gameEndTime - room.whenPaused
              /\ Scores(room') = Scores(room) /\ ball' = ball]_vars

\* a local round that was resumed with its whole budget left
RoundResumed ==
    /\ room.mode = "local" /\ room.status = "in-progress" /\ room.loop = "resume"
    /\ room.gameEndTime = now + gameDuration

\* C38: a keypress that a Reaction room receives while it is not in-progress,
\* or while the countdown is at or below zero, changes no score, nothing else
\* of the room, and emits nothing, whoever sends it and whatever the key.
IdleKeypressIsSilent ==
    (engine = "keyclash" /\ (room.status # "in-progress" \/ room.timeLeft <= 0)) =>
        \A c \in Conns, col \in 0..2, hit \in BOOLEAN :
            RunKeypress(Begin(room), sockets[c].regs, 1, col, hit) = Begin(room)

\* a finished Reaction round whose players still hold their keypress handlers
KeypressAfterTheRound ==
    /\ engine = "keyclash" /\ Alive /\ room.status = "finished" /\ room.timeLeft <= 0
    /\ \E c \in Conns : Joined(c) /\ sockets[c].regs # <<>>

\* C39: the pool of a lobby holds at most one entry per connection and at most
\* one entry per durable id that is not null, and no entry of a connection
\* that has disconnected.
PoolHoldsEachOnce ==
    LET pool == lobby.playersOnline
    IN  /\ \A i, j \in DOMAIN pool :
              i # j => /\ pool[i].socketId # pool[j].socketId
                       /\ pool[i].playerId # 0 => pool[i].playerId # pool[j].playerId
        /\ \A c \in lobby.closed, i \in DOMAIN pool : pool[i].socketId # c

\* neither score is above maxScore and at most one has reached it
WithinThreshold(s) ==
    /\ s.leftScore <= maxScore /\ s.rightScore <= maxScore
    /\ ~(s.leftScore = maxScore /\ s.rightScore = maxScore)

\* C40: in the Paddle engine neither score is ever above the win threshold and
\* at most one score has reached it; a tick that finds a score at the threshold
\* finishes the round and awards no point, and a tick that finds the room not
\* in-progress changes no score.
ScoresStayWithinThreshold ==
    engine = "pong" =>
        /\ WithinThreshold(room)
        /\ room.loop # "none" =>
              \A pt \in Points :
                  LET n == update(Begin(room), now, pt)
                  IN  /\ WithinThreshold(n)
                      /\ room.status # "in-progress" => Scores(n) = Scores(room)
                      /\ (/\ room.status = "in-progress"
                          /\ room.leftScore >= maxScore \/ room.rightScore >= maxScore)
                            => Scores(n) = Scores(room) /\ n.status = "finished"

\* a round in progress in which a score has reached the threshold
ScoreAtThreshold ==
    /\ engine = "pong" /\ room.status = "in-progress" /\ room.loop # "none"
    /\ room.gameEndTime > now
    /\ room.leftScore = maxScore \/ room.rightScore = maxScore

====
